---------------------------- MODULE Spec2Model ----------------------------
(***************************************************************************)
(* A model of go-hashvalue-replacer (src/lib.go): the digest index         *)
(* (ValuesToArgs, NewReader), the sliding-window scan (processData), and   *)
(* the chunked Reader with its worker pool (Read, processNextChunk,        *)
(* processResults, worker.run, Close).                                     *)
(*                                                                         *)
(* Bytes are naturals 0..255; byte strings are sequences of bytes.         *)
(* Positions follow the Go code: 0-based, half-open.                       *)
(***************************************************************************)
EXTENDS Naturals, Integers, Sequences, FiniteSets, TLC

VARIABLES
    \* ---- the digest index and options of one Reader (lib.go:99-113) ----
    salt,         \* r.salt
    hashes,       \* r.hashes: sequence of digests
    lengths,      \* r.lengths: candidate window lengths, as NewReader left them
    maxLength,    \* r.maxLength
    mask,         \* r.options.Mask
    \* ---- one run of the scan loop of processData (lib.go:283-317) ----
    sPc,          \* "off" | "loop" | "done"
    sData,        \* data
    sI,           \* i
    sLastPos,     \* lastPos
    sResult,      \* result
    sSpans,       \* history: <<i, length>> of every match, in scan order
    sExamined,    \* history: every position i at which the loop body ran
    \* ---- the Reader (lib.go:27-46) and the source it wraps ----
    numWorkers,   \* r.options.NumWorkers: workers started, capacity of both channels
    source,       \* all the bytes of the underlying io.ReadCloser
    srcShort,     \* whether a Read of the source may return fewer bytes than it has
    srcPos,       \* bytes of the source consumed through r.reader
    buffer,       \* r.buffer: the unread bytes
    pending,      \* r.pending: chunk id -> chunk
    nextChunk,    \* r.nextChunk
    workChNil,    \* r.workCh == nil
    workQ,        \* the chunks buffered in the work channel
    workClosed,   \* number of close() calls on the work channel
    resultChNil,  \* r.resultCh == nil
    resultQ,      \* the chunks buffered in the result channel
    resultClosed, \* number of close() calls on the result channel
    closed,       \* r.closed
    muHeld,       \* r.mu is held by Close's second critical section
    stopClosed,   \* per worker: number of close() calls on its stopCh
    srcCloseCount,\* number of calls of r.readerCloser
    \* ---- the goroutines ----
    wpc,          \* per worker: "select" | "send" | "exited"
    wChunk,       \* per worker: the chunk it holds
    rpc,          \* where the caller's Read is
    rP,           \* len(p) of the Read in progress
    rChunk,       \* the chunk local to processNextChunk / processResults
    rAfter,       \* where Read continues when its own r.Close() returns
    cpc,          \* per concurrent caller of Close: "idle" | "tearing" | "done"
    tearPc,       \* where the Close that won the CompareAndSwap is
    tearIdx,      \* its index in "for _, w := range workers"
    tearBy,       \* who runs it: 0 for Read, c for the c-th caller of Close, -1 for nobody
    \* ---- what the caller and the runtime observed ----
    output,       \* the bytes Read has delivered
    eof,          \* Read has returned io.EOF
    readErr,      \* Read has returned "work channel full"
    panicked,     \* a send on a closed channel happened
    writeLog,     \* ids of the chunks written to r.buffer, in order
    dispatched,   \* the chunks processNextChunk gave an id, in order
    \* ---- a source whose Read fails ----
    srcErrAt,     \* after this many bytes the source returns an error (-1: never)
    errOutLen,    \* len of the output when Read first returned the source's error (-1: never)
    errSrcPos,    \* bytes consumed from the source at that moment (-1: never)
    \* ---- a caller that builds the index and the Reader ----
    cPc,          \* "off" | "start" | "args" | "returned"
    cValues,      \* values given to ValuesToArgs
    cArgs,        \* the arguments of NewReader: rd, salt, hashes, lengths, opts
                  \* (and where the digests and lengths are from)
    cRet          \* what NewReader returned: the reader and the error

idxVars  == <<salt, hashes, lengths, maxLength, mask>>
scanVars == <<sPc, sData, sI, sLastPos, sResult, sSpans, sExamined>>
cfgVars  == <<numWorkers, source, srcShort>>
chanVars == <<workChNil, workQ, workClosed, resultChNil, resultQ, resultClosed>>
tearVars == <<tearPc, tearIdx, tearBy>>
obsVars  == <<output, eof, readErr, panicked, writeLog, dispatched>>
readerVars == <<cfgVars, srcPos, buffer, pending, nextChunk, chanVars, closed, muHeld,
                stopClosed, srcCloseCount, wpc, wChunk, rpc, rP, rChunk, rAfter, cpc,
                tearVars, obsVars>>
errVars  == <<srcErrAt, errOutLen, errSrcPos>>
ctorVars == <<cPc, cValues, cArgs, cRet>>
vars     == <<idxVars, scanVars, readerVars, errVars, ctorVars>>

-----------------------------------------------------------------------------
(* Bounds of the model *)

\* longest buffer handed to the scan machine
MaxData == 4
\* the scan machine stops after this many matches more than the data has bytes
\* (only a zero-length window can match without end)
MaxGrowth == 2

\* r.chunkSize, which NewReader sets to 32*1024: scaled down
chunkSize == 3
\* longest source
MaxInput == 6
\* largest len(p) the caller passes to Read
MaxP == 2
\* largest NumWorkers
MaxWorkers == 2
\* goroutines that call Close while the caller reads
NumClosers == 2
\* longest source when Close is called concurrently
MaxInputClose == 6
\* longest source when the source's Read fails
MaxInputErr == 6
\* longest source handed to NewReader when the construction is examined
MaxInputNew == 3
\* the shortest secret a caller indexes (the tests index none shorter than 3
\* or 4 bytes): scaled down with chunkSize
MinSecretLen == 2

-----------------------------------------------------------------------------
(* Bytes *)

\* the zero byte make() fills a fresh slice with
NUL == 0
\* "\n", the cutset of strings.Trim in ValuesToArgs
LF == 10

Min(a, b) == IF a < b THEN a ELSE b

\* all byte strings over S of length at most n
SeqUpTo(S, n) == UNION {[1..k -> S] : k \in 0..n}

\* Go's data[from:to] (0-based, half-open)
Slice(data, from, to) == SubSeq(data, from + 1, to)

\* whether sub occurs in s as a contiguous substring (bytes.Contains)
Contains(s, sub) ==
    \E k \in 0..(Len(s) - Len(sub)) : Slice(s, k, k + Len(sub)) = sub

-----------------------------------------------------------------------------
(* The digest function and the digest index *)

\* The injected HashAlgorithm. The tests' blake2bHash writes salt, then data,
\* into SHA-256; the digest is modelled as an injective image of salt ++ data.
Hash(s, data) == <<"digest", s \o data>>

\* strings.Trim(value, "\n"): drop leading and trailing LF bytes
RECURSIVE TrimLeft(_)
TrimLeft(v) == IF v # <<>> /\ Head(v) = LF THEN TrimLeft(Tail(v)) ELSE v
RECURSIVE TrimRight(_)
TrimRight(v) ==
    IF v # <<>> /\ v[Len(v)] = LF THEN TrimRight(SubSeq(v, 1, Len(v) - 1)) ELSE v
TrimNothing(v) == v
Trim(v) == TrimRight(TrimLeft(v))

\* sort.Sort(sort.Reverse(sort.IntSlice(ls))): the same elements, descending
RECURSIVE SortDescending(_)
SortDescending(ls) ==
    IF ls = <<>> THEN <<>>
    ELSE LET m == CHOOSE k \in 1..Len(ls) : \A j \in 1..Len(ls) : ls[k] >= ls[j]
         IN <<ls[m]>> \o SortDescending(SubSeq(ls, 1, m - 1) \o SubSeq(ls, m + 1, Len(ls)))

\* the elements of a sequence
Range(s) == {s[k] : k \in 1..Len(s)}

\* a sequence without its repeated elements (first occurrence kept): a Go map's keys
DedupKeepAll(s) == s
RECURSIVE Dedup(_)
Dedup(s) ==
    IF s = <<>> THEN <<>>
    ELSE LET r == Dedup(SubSeq(s, 1, Len(s) - 1))
         IN IF s[Len(s)] \in Range(r) THEN r ELSE Append(r, s[Len(s)])

\* ValuesToArgs: every value is trimmed, hashed into the map hm (keyed by the
\* hex form of the digest, which is one-to-one with the digest) and its length
\* put into the map lm; the digests are returned in the map's order (modelled
\* as insertion order), the lengths sorted descending.
ValuesToArgs(s, values) ==
    LET trimmed == [k \in 1..Len(values) |-> Trim(values[k])]
    IN [hashes  |-> Dedup([k \in 1..Len(values) |-> Hash(s, trimmed[k])]),
        lengths |-> SortDescending(Dedup([k \in 1..Len(values) |-> Len(trimmed[k])]))]

\* NewReader, lines 90-93 and 107: the lengths are sorted descending again
NewReaderLengthsUnsorted(ls) == ls
NewReaderLengths(ls) == SortDescending(ls)

\* NewReader's guards: "passthrough" for no digests, "error" for no usable
\* length, "reader" otherwise
NewReaderOutcomeNoPassThrough(hs, ls) ==
    IF Len(ls) = 0 \/ NewReaderLengths(ls)[1] = 0 THEN "error" ELSE "reader"
NewReaderOutcomeNoLengthCheck(hs, ls) ==
    IF Len(hs) = 0 THEN "passthrough" ELSE "reader"
NewReaderOutcome(hs, ls) ==
    IF Len(hs) = 0 THEN "passthrough"
    ELSE IF Len(ls) = 0 \/ NewReaderLengths(ls)[1] = 0 THEN "error"
    ELSE "reader"

\* hashMatch: test is one of r.hashes
hashMatch(test) == \E k \in 1..Len(hashes) : hashes[k] = test

-----------------------------------------------------------------------------
(* processData *)

\* The inner loop over r.lengths at position i (lines 290-306): the first
\* length, in the order of r.lengths, whose window fits and whose digest
\* matches; -1 when there is none.
MatchLength(data, i) ==
    LET hit == {k \in 1..Len(lengths) :
                   /\ i + lengths[k] <= Len(data)
                   /\ hashMatch(Hash(salt, Slice(data, i, i + lengths[k])))}
    IN IF hit = {} THEN -1
       ELSE lengths[CHOOSE k \in hit : \A j \in hit : k <= j]

\* line 301, "i += length": where the scan resumes after a match at i
ResumeAtNextByte(i, length) == i + 1
Resume(i, length) == i + length

\* line 308, "i++": where the scan goes on when nothing matched at i
AdvanceTwo(i) == i + 2
Advance(i) == i + 1

\* what a match at i appends to result (lines 297-300)
MatchAppend(data, i, lastPos, result) ==
    (IF i > lastPos THEN result \o Slice(data, lastPos, i) ELSE result) \o mask

\* lines 312-316: the unmatched tail
ScanTail(data, lastPos, result) ==
    IF lastPos < Len(data) THEN result \o Slice(data, lastPos, Len(data)) ELSE result

\* the whole scan as a function of the buffer (total when no zero-length
\* window can match): the result, and the <<i, length>> of every match
RECURSIVE ScanFrom(_, _, _, _, _)
ScanFrom(data, i, lastPos, result, spans) ==
    IF i >= Len(data) THEN [result |-> ScanTail(data, lastPos, result), spans |-> spans]
    ELSE LET length == MatchLength(data, i)
         IN IF length >= 0
            THEN ScanFrom(data, Resume(i, length), Resume(i, length),
                          MatchAppend(data, i, lastPos, result), Append(spans, <<i, length>>))
            ELSE ScanFrom(data, Advance(i), lastPos, result, spans)
processData(data) == ScanFrom(data, 0, 0, <<>>, <<>>).result

-----------------------------------------------------------------------------
(* The Reader: processNextChunk, worker.run, processResults, Read, Close *)

Workers == 1..numWorkers
Closers == DOMAIN cpc

\* result[:n] of a slice whose capacity is at least n: a prefix, or, past
\* len(result), the zero bytes make() left in the backing array
Reslice(result, n) ==
    IF n <= Len(result) THEN SubSeq(result, 1, n)
    ELSE result \o [k \in 1..(n - Len(result)) |-> NUL]

\* worker.run lines 139-143: scan data ++ overlap, cut a non-final result
WorkerResult(c) ==
    LET result == processData(c.data \o c.overlap)
    IN IF ~c.isLast /\ Len(result) > 0 THEN Reslice(result, Len(c.data)) ELSE result

\* io.ReadFull(r.reader, data) with len(data) = chunkSize: all of the next
\* chunkSize bytes, fewer only at the end of the source
ReadFullCount == Min(chunkSize, Len(source) - srcPos)

\* r.reader.Read(overlap) with len(overlap) = maxLength, after n more bytes
\* were consumed: what one Read of the source gives, at most maxLength bytes
OverlapCounts(n) ==
    LET rest == IF srcErrAt >= srcPos + n THEN srcErrAt - (srcPos + n)
                ELSE Len(source) - (srcPos + n)
    IN IF rest = 0 THEN {0}
       ELSE IF srcShort THEN 1..Min(maxLength, rest)
       ELSE {Min(maxLength, rest)}

\* processResults line 264: the key looked up in r.pending
LookupKey == Len(buffer) \div chunkSize

\* delete(r.pending, id)
DeletePendingNothing(id) == pending
DeletePending(id) == [k \in (DOMAIN pending) \ {id} |-> pending[k]]

\* r.closed.CompareAndSwap(false, true) succeeds
CompareAndSwapAlways == TRUE
CompareAndSwap == ~closed

noChunk == [id |-> -1, data |-> <<>>, overlap |-> <<>>, isLast |-> FALSE, result |-> <<>>]

\* Read calls r.Close() (lines 197 and 277) and continues at after
ReaderCallsClose(after) ==
    /\ rpc' = "callClose"
    /\ rAfter' = after

\* Read, lines 190-194 and 203-205 when the buffer holds bytes
ReadCall(k) ==
    /\ rpc = "idle"
    /\ rP' = k
    /\ IF closed
       THEN /\ eof' = TRUE
            /\ rpc' = "done"
       ELSE /\ rpc' = IF buffer = <<>> THEN "pnc" ELSE "copy"
            /\ UNCHANGED eof
    /\ UNCHANGED <<ctorVars, errVars, idxVars, scanVars, cfgVars, srcPos, buffer, pending, nextChunk, chanVars,
                   closed, muHeld, stopClosed, srcCloseCount, wpc, wChunk, rChunk, rAfter,
                   cpc, tearVars, output, readErr, panicked, writeLog, dispatched>>

\* Read, lines 203-205: n = copy(p, r.buffer.Bytes()); r.buffer.Next(n)
ReadCopy ==
    /\ rpc = "copy"
    /\ LET n == Min(rP, Len(buffer))
       IN /\ output' = output \o SubSeq(buffer, 1, n)
          /\ buffer' = SubSeq(buffer, n + 1, Len(buffer))
    /\ rpc' = "idle"
    /\ UNCHANGED <<ctorVars, errVars, idxVars, scanVars, cfgVars, srcPos, pending, nextChunk, chanVars,
                   closed, muHeld, stopClosed, srcCloseCount, wpc, wChunk, rP, rChunk, rAfter,
                   cpc, tearVars, eof, readErr, panicked, writeLog, dispatched>>

\* Read, line 199 after r.Close(): return 0, io.EOF
ReadReturnEOF ==
    /\ rpc = "retEOF"
    /\ eof' = TRUE
    /\ rpc' = "done"
    /\ UNCHANGED <<ctorVars, errVars, idxVars, scanVars, cfgVars, srcPos, buffer, pending, nextChunk, chanVars,
                   closed, muHeld, stopClosed, srcCloseCount, wpc, wChunk, rP, rChunk, rAfter,
                   cpc, tearVars, output, readErr, panicked, writeLog, dispatched>>

\* io.ReadFull meets the source's error before it has chunkSize bytes (lines
\* 214-217), or the overlap read meets it at once (lines 225-228)
ReadFullFails == srcErrAt >= srcPos /\ srcErrAt - srcPos < chunkSize
OverlapFails == ~ReadFullFails /\ srcErrAt = srcPos + ReadFullCount

\* processNextChunk, lines 209-229: the closed check, ReadFull, the overlap read.
\* A source error is returned by processNextChunk and then by Read (line 199);
\* the bytes read before it are dropped, and the source may fail again at the
\* same place or go on.
ProcessNextChunkRead ==
    /\ rpc = "pnc"
    /\ IF ~closed /\ (ReadFullFails \/ OverlapFails)
       THEN /\ srcPos' = srcErrAt
            /\ srcErrAt' \in {srcErrAt, -1}
            /\ errOutLen' = IF errOutLen < 0 THEN Len(output) ELSE errOutLen
            /\ errSrcPos' = IF errOutLen < 0 THEN srcErrAt ELSE errSrcPos
            /\ rpc' = "idle"
            /\ UNCHANGED <<rChunk, rAfter>>
       ELSE IF closed \/ ReadFullCount = 0
       THEN /\ ReaderCallsClose("retEOF")
            /\ UNCHANGED <<srcPos, rChunk, errVars>>
       ELSE \E on \in OverlapCounts(ReadFullCount) :
               /\ rChunk' = [id |-> -1,
                             data |-> Slice(source, srcPos, srcPos + ReadFullCount),
                             overlap |-> Slice(source, srcPos + ReadFullCount,
                                               srcPos + ReadFullCount + on),
                             isLast |-> ReadFullCount < chunkSize,
                             result |-> <<>>]
               /\ srcPos' = srcPos + ReadFullCount + on
               /\ rpc' = "mk"
               /\ UNCHANGED <<rAfter, errVars>>
    /\ UNCHANGED <<ctorVars, idxVars, scanVars, cfgVars, buffer, pending, nextChunk, chanVars,
                   closed, muHeld, stopClosed, srcCloseCount, wpc, wChunk, rP,
                   cpc, tearVars, obsVars>>

\* processNextChunk, lines 231-237: the chunk gets r.nextChunk as its id
ProcessNextChunkId ==
    /\ rpc = "mk"
    /\ rChunk' = [rChunk EXCEPT !.id = nextChunk]
    /\ nextChunk' = nextChunk + 1
    /\ dispatched' = Append(dispatched, [rChunk EXCEPT !.id = nextChunk])
    /\ rpc' = "send"
    /\ UNCHANGED <<ctorVars, errVars, idxVars, scanVars, cfgVars, srcPos, buffer, pending, chanVars,
                   closed, muHeld, stopClosed, srcCloseCount, wpc, wChunk, rP, rAfter,
                   cpc, tearVars, output, eof, readErr, panicked, writeLog>>

\* processNextChunk, line 245, "return r.processResults()": after the send
\* the caller goes on to wait for a result
AfterSendReturns == "copy"
AfterSend == "prc"

\* processNextChunk, lines 239-243: select { case r.workCh <- chunk: default: }
ProcessNextChunkSend ==
    /\ rpc = "send"
    /\ IF workChNil \/ (workClosed = 0 /\ Len(workQ) >= numWorkers)
       THEN \* a nil or a full channel is not ready: the default case
            /\ readErr' = TRUE
            /\ rpc' = "done"
            /\ UNCHANGED <<workQ, panicked>>
       ELSE IF workClosed > 0
       THEN \* send on closed channel
            /\ panicked' = TRUE
            /\ rpc' = "panic"
            /\ UNCHANGED <<workQ, readErr>>
       ELSE /\ workQ' = Append(workQ, rChunk)
            /\ rpc' = AfterSend
            /\ UNCHANGED <<readErr, panicked>>
    /\ UNCHANGED <<ctorVars, errVars, idxVars, scanVars, cfgVars, srcPos, buffer, pending, nextChunk,
                   workChNil, workClosed, resultChNil, resultQ, resultClosed,
                   closed, muHeld, stopClosed, srcCloseCount, wpc, wChunk, rP, rChunk, rAfter,
                   cpc, tearVars, output, eof, writeLog, dispatched>>

\* processResults, lines 249-251: the closed check
ProcessResultsCheck ==
    /\ rpc = "prc"
    /\ IF closed THEN ReaderCallsClose("retEOF")
                 ELSE rpc' = "recv" /\ UNCHANGED rAfter
    /\ UNCHANGED <<ctorVars, errVars, idxVars, scanVars, cfgVars, srcPos, buffer, pending, nextChunk, chanVars,
                   closed, muHeld, stopClosed, srcCloseCount, wpc, wChunk, rP, rChunk,
                   cpc, tearVars, obsVars>>

\* processResults, line 253: r.resultCh is read; a receive from a nil channel
\* blocks for ever
ProcessResultsRecvStart ==
    /\ rpc = "recv"
    /\ rpc' = IF resultChNil THEN "blocked" ELSE "recvWait"
    /\ UNCHANGED <<ctorVars, errVars, idxVars, scanVars, cfgVars, srcPos, buffer, pending, nextChunk, chanVars,
                   closed, muHeld, stopClosed, srcCloseCount, wpc, wChunk, rP, rChunk, rAfter,
                   cpc, tearVars, obsVars>>

\* processResults, lines 253-256: the receive completes, with a result or with
\* !ok from the closed channel
ProcessResultsRecv ==
    /\ rpc = "recvWait"
    /\ resultQ # <<>> \/ resultClosed > 0
    /\ IF resultQ # <<>>
       THEN /\ rChunk' = Head(resultQ)
            /\ resultQ' = Tail(resultQ)
            /\ rpc' = "insert"
            /\ UNCHANGED rAfter
       ELSE /\ ReaderCallsClose("retEOF")
            /\ UNCHANGED <<rChunk, resultQ>>
    /\ UNCHANGED <<ctorVars, errVars, idxVars, scanVars, cfgVars, srcPos, buffer, pending, nextChunk,
                   workChNil, workQ, workClosed, resultChNil, resultClosed,
                   closed, muHeld, stopClosed, srcCloseCount, wpc, wChunk, rP,
                   cpc, tearVars, obsVars>>

\* processResults, lines 258-260: r.pending[result.id] = result
ProcessResultsInsert ==
    /\ rpc = "insert"
    /\ ~muHeld
    /\ pending' = [k \in (DOMAIN pending) \cup {rChunk.id} |->
                      IF k = rChunk.id THEN rChunk ELSE pending[k]]
    /\ rpc' = "lookup"
    /\ UNCHANGED <<ctorVars, errVars, idxVars, scanVars, cfgVars, srcPos, buffer, nextChunk, chanVars,
                   closed, muHeld, stopClosed, srcCloseCount, wpc, wChunk, rP, rChunk, rAfter,
                   cpc, tearVars, obsVars>>

\* processResults, lines 263-269: the lookup; "return nil" when the key is absent
ProcessResultsLookup ==
    /\ rpc = "lookup"
    /\ ~muHeld
    /\ IF LookupKey \in DOMAIN pending
       THEN /\ rChunk' = pending[LookupKey]
            /\ rpc' = "write"
       ELSE /\ rpc' = "copy"
            /\ UNCHANGED rChunk
    /\ UNCHANGED <<ctorVars, errVars, idxVars, scanVars, cfgVars, srcPos, buffer, pending, nextChunk, chanVars,
                   closed, muHeld, stopClosed, srcCloseCount, wpc, wChunk, rP, rAfter,
                   cpc, tearVars, obsVars>>

\* processResults, lines 271-279: write the result, delete the chunk; the
\* final chunk closes the Reader
ProcessResultsWrite ==
    /\ rpc = "write"
    /\ ~muHeld
    /\ buffer' = buffer \o rChunk.result
    /\ writeLog' = Append(writeLog, rChunk.id)
    /\ pending' = DeletePending(rChunk.id)
    /\ IF rChunk.isLast THEN ReaderCallsClose("copy")
                        ELSE rpc' = "lookup" /\ UNCHANGED rAfter
    /\ UNCHANGED <<ctorVars, errVars, idxVars, scanVars, cfgVars, srcPos, nextChunk, chanVars,
                   closed, muHeld, stopClosed, srcCloseCount, wpc, wChunk, rP, rChunk,
                   cpc, tearVars, output, eof, readErr, panicked, dispatched>>

\* Close, lines 155-162, called by Read: the CompareAndSwap; the winner takes
\* r.workers
ReaderClose ==
    /\ rpc = "callClose"
    /\ IF CompareAndSwap
       THEN /\ closed' = TRUE
            /\ tearPc' = "stop"
            /\ tearIdx' = 1
            /\ tearBy' = 0
            /\ rpc' = "closing"
       ELSE /\ rpc' = rAfter
            /\ UNCHANGED <<closed, tearVars>>
    /\ UNCHANGED <<ctorVars, errVars, idxVars, scanVars, cfgVars, srcPos, buffer, pending, nextChunk, chanVars,
                   muHeld, stopClosed, srcCloseCount, wpc, wChunk, rP, rChunk, rAfter,
                   cpc, obsVars>>

\* Close, lines 155-162, called by another goroutine
CloseCall(c) ==
    /\ cpc[c] = "idle"
    /\ IF CompareAndSwap
       THEN /\ closed' = TRUE
            /\ tearPc' = "stop"
            /\ tearIdx' = 1
            /\ tearBy' = c
            /\ cpc' = [cpc EXCEPT ![c] = "tearing"]
       ELSE /\ cpc' = [cpc EXCEPT ![c] = "done"]
            /\ UNCHANGED <<closed, tearVars>>
    /\ UNCHANGED <<ctorVars, errVars, idxVars, scanVars, cfgVars, srcPos, buffer, pending, nextChunk, chanVars,
                   muHeld, stopClosed, srcCloseCount, wpc, wChunk, rpc, rP, rChunk, rAfter,
                   obsVars>>

\* Close, lines 165-167: close(w.stopCh), one worker per step
TearStop ==
    /\ tearPc = "stop"
    /\ stopClosed' = [stopClosed EXCEPT ![tearIdx] = @ + 1]
    /\ IF tearIdx < numWorkers
       THEN tearIdx' = tearIdx + 1 /\ UNCHANGED tearPc
       ELSE tearPc' = "wait" /\ UNCHANGED tearIdx
    /\ UNCHANGED <<ctorVars, errVars, idxVars, scanVars, cfgVars, srcPos, buffer, pending, nextChunk, chanVars,
                   closed, muHeld, srcCloseCount, wpc, wChunk, rpc, rP, rChunk, rAfter,
                   cpc, tearBy, obsVars>>

\* r.wg's counter is zero: every worker has run its deferred Done (line 130)
WaitGroupIgnored == TRUE
WaitGroupZero == \A w \in Workers : wpc[w] = "exited"

\* Close, line 170: r.wg.Wait() returns when every worker has run its Done
TearWait ==
    /\ tearPc = "wait"
    /\ WaitGroupZero
    /\ tearPc' = "closeWork"
    /\ UNCHANGED <<ctorVars, errVars, idxVars, scanVars, cfgVars, srcPos, buffer, pending, nextChunk, chanVars,
                   closed, muHeld, stopClosed, srcCloseCount, wpc, wChunk, rpc, rP, rChunk,
                   rAfter, cpc, tearIdx, tearBy, obsVars>>

\* Close, lines 172-174: r.mu.Lock(); close(r.workCh)
TearCloseWork ==
    /\ tearPc = "closeWork"
    /\ ~muHeld
    /\ muHeld' = TRUE
    /\ workClosed' = IF workChNil THEN workClosed ELSE workClosed + 1
    /\ tearPc' = "nilWork"
    /\ UNCHANGED <<ctorVars, errVars, idxVars, scanVars, cfgVars, srcPos, buffer, pending, nextChunk,
                   workChNil, workQ, resultChNil, resultQ, resultClosed,
                   closed, stopClosed, srcCloseCount, wpc, wChunk, rpc, rP, rChunk,
                   rAfter, cpc, tearIdx, tearBy, obsVars>>

\* Close, line 175: r.workCh = nil
TearNilWork ==
    /\ tearPc = "nilWork"
    /\ workChNil' = TRUE
    /\ tearPc' = "closeResult"
    /\ UNCHANGED <<ctorVars, errVars, idxVars, scanVars, cfgVars, srcPos, buffer, pending, nextChunk,
                   workQ, workClosed, resultChNil, resultQ, resultClosed,
                   closed, muHeld, stopClosed, srcCloseCount, wpc, wChunk, rpc, rP, rChunk,
                   rAfter, cpc, tearIdx, tearBy, obsVars>>

\* Close, lines 177-178: close(r.resultCh)
TearCloseResult ==
    /\ tearPc = "closeResult"
    /\ resultClosed' = IF resultChNil THEN resultClosed ELSE resultClosed + 1
    /\ tearPc' = "nilResult"
    /\ UNCHANGED <<ctorVars, errVars, idxVars, scanVars, cfgVars, srcPos, buffer, pending, nextChunk,
                   workChNil, workQ, workClosed, resultChNil, resultQ,
                   closed, muHeld, stopClosed, srcCloseCount, wpc, wChunk, rpc, rP, rChunk,
                   rAfter, cpc, tearIdx, tearBy, obsVars>>

\* Close, line 179: r.resultCh = nil
TearNilResult ==
    /\ tearPc = "nilResult"
    /\ resultChNil' = TRUE
    /\ tearPc' = "reset"
    /\ UNCHANGED <<ctorVars, errVars, idxVars, scanVars, cfgVars, srcPos, buffer, pending, nextChunk,
                   workChNil, workQ, workClosed, resultQ, resultClosed,
                   closed, muHeld, stopClosed, srcCloseCount, wpc, wChunk, rpc, rP, rChunk,
                   rAfter, cpc, tearIdx, tearBy, obsVars>>

\* (a Close that would also drop the length list and maxLength)
TearResetDropsIndex ==
    /\ tearPc = "reset"
    /\ pending' = <<>>
    /\ nextChunk' = 0
    /\ muHeld' = FALSE
    /\ tearPc' = "closeSource"
    /\ lengths' = <<>>
    /\ maxLength' = 0
    /\ UNCHANGED <<ctorVars, errVars, salt, hashes, mask, scanVars, cfgVars, srcPos, buffer,
                   chanVars, closed, stopClosed, srcCloseCount, wpc, wChunk, rpc, rP, rChunk,
                   rAfter, cpc, tearIdx, tearBy, obsVars>>

\* Close, lines 181-183: a fresh pending map, nextChunk = 0, r.mu.Unlock()
TearReset ==
    /\ tearPc = "reset"
    /\ pending' = <<>>
    /\ nextChunk' = 0
    /\ muHeld' = FALSE
    /\ tearPc' = "closeSource"
    /\ UNCHANGED <<ctorVars, errVars, idxVars, scanVars, cfgVars, srcPos, buffer, chanVars,
                   closed, stopClosed, srcCloseCount, wpc, wChunk, rpc, rP, rChunk,
                   rAfter, cpc, tearIdx, tearBy, obsVars>>

\* Close, line 186: return r.readerCloser()
TearCloseSource ==
    /\ tearPc = "closeSource"
    /\ srcCloseCount' = srcCloseCount + 1
    /\ tearPc' = "finished"
    /\ IF tearBy = 0
       THEN rpc' = rAfter /\ UNCHANGED cpc
       ELSE cpc' = [cpc EXCEPT ![tearBy] = "done"] /\ UNCHANGED rpc
    /\ UNCHANGED <<ctorVars, errVars, idxVars, scanVars, cfgVars, srcPos, buffer, pending, nextChunk, chanVars,
                   closed, muHeld, stopClosed, wpc, wChunk, rP, rChunk,
                   rAfter, tearIdx, tearBy, obsVars>>

\* worker.run, lines 132-134 and 146-147: the stop channel is closed; return
WorkerStop(w) ==
    /\ wpc[w] \in {"select", "send"}
    /\ stopClosed[w] > 0
    /\ wpc' = [wpc EXCEPT ![w] = "exited"]
    /\ wChunk' = [wChunk EXCEPT ![w] = noChunk]
    /\ UNCHANGED <<ctorVars, errVars, idxVars, scanVars, cfgVars, srcPos, buffer, pending, nextChunk, chanVars,
                   closed, muHeld, stopClosed, srcCloseCount, rpc, rP, rChunk, rAfter,
                   cpc, tearVars, obsVars>>

\* worker.run, lines 135-143: a chunk is received and processed (or the
\* channel is closed and empty: return)
WorkerTake(w) ==
    /\ wpc[w] = "select"
    /\ ~workChNil
    /\ workQ # <<>> \/ workClosed > 0
    /\ IF workQ # <<>>
       THEN /\ wChunk' = [wChunk EXCEPT ![w] = [Head(workQ) EXCEPT !.result = WorkerResult(Head(workQ))]]
            /\ workQ' = Tail(workQ)
            /\ wpc' = [wpc EXCEPT ![w] = "send"]
       ELSE /\ wpc' = [wpc EXCEPT ![w] = "exited"]
            /\ UNCHANGED <<wChunk, workQ>>
    /\ UNCHANGED <<ctorVars, errVars, idxVars, scanVars, cfgVars, srcPos, buffer, pending, nextChunk,
                   workChNil, workClosed, resultChNil, resultQ, resultClosed,
                   closed, muHeld, stopClosed, srcCloseCount, rpc, rP, rChunk, rAfter,
                   cpc, tearVars, obsVars>>

\* worker.run, lines 144-145: the processed chunk is sent to r.resultCh
WorkerSend(w) ==
    /\ wpc[w] = "send"
    /\ ~resultChNil
    /\ resultClosed > 0 \/ Len(resultQ) < numWorkers
    /\ IF resultClosed > 0
       THEN /\ panicked' = TRUE
            /\ wpc' = [wpc EXCEPT ![w] = "panic"]
            /\ UNCHANGED <<resultQ, wChunk>>
       ELSE /\ resultQ' = Append(resultQ, wChunk[w])
            /\ wChunk' = [wChunk EXCEPT ![w] = noChunk]
            /\ wpc' = [wpc EXCEPT ![w] = "select"]
            /\ UNCHANGED panicked
    /\ UNCHANGED <<ctorVars, errVars, idxVars, scanVars, cfgVars, srcPos, buffer, pending, nextChunk,
                   workChNil, workQ, workClosed, resultChNil, resultClosed,
                   closed, muHeld, stopClosed, srcCloseCount, rpc, rP, rChunk, rAfter,
                   cpc, tearVars, output, eof, readErr, writeLog, dispatched>>

-----------------------------------------------------------------------------
(* The scan loop, one iteration per step *)

\* one iteration of "for i := 0; i < dataLen;" that finds a match
ScanMatch ==
    /\ sPc = "loop"
    /\ sI < Len(sData)
    /\ MatchLength(sData, sI) >= 0
    /\ Len(sSpans) < Len(sData) + MaxGrowth
    /\ LET length == MatchLength(sData, sI)
       IN /\ sResult' = MatchAppend(sData, sI, sLastPos, sResult)
          /\ sI' = Resume(sI, length)
          /\ sLastPos' = Resume(sI, length)
          /\ sSpans' = Append(sSpans, <<sI, length>>)
    /\ sExamined' = Append(sExamined, sI)
    /\ UNCHANGED <<sPc, sData, idxVars, readerVars, errVars, ctorVars>>

\* one iteration that finds none: i++
ScanAdvance ==
    /\ sPc = "loop"
    /\ sI < Len(sData)
    /\ MatchLength(sData, sI) < 0
    /\ sI' = Advance(sI)
    /\ sExamined' = Append(sExamined, sI)
    /\ UNCHANGED <<sPc, sData, sLastPos, sResult, sSpans, idxVars, readerVars, errVars, ctorVars>>

\* the loop ends; the tail is appended and result returned
ScanFinish ==
    /\ sPc = "loop"
    /\ sI >= Len(sData)
    /\ sResult' = ScanTail(sData, sLastPos, sResult)
    /\ sPc' = "done"
    /\ UNCHANGED <<sData, sI, sLastPos, sSpans, sExamined, idxVars, readerVars, errVars, ctorVars>>

\* Candidate lists given to ValuesToArgs for the scan: one secret, a secret
\* that contains a shorter one, overlapping secrets, a secret equal to the
\* mask, a secret given with newlines around it, an empty candidate.
ScanValueLists ==
    { <<<<97, 98>>>>,
      <<<<97>>, <<97, 98>>>>,
      <<<<97, 98>>, <<98, 97, 98>>>>,
      <<<<42, 42>>, <<97>>>>,
      <<<<LF, 97, 98, LF>>, <<98>>>>,
      <<<<97, 98>>, <<>>>> }
ScanBytes == {97, 98, 42}
ScanMasks == {<<42, 42>>, <<42>>, <<>>}
ScanSalts == {<<>>, <<7>>}

\* the two orders in which a caller may hand a length list to NewReader
Reverse(s) == [k \in 1..Len(s) |-> s[Len(s) + 1 - k]]

InitIndex(values, s, m, reversed) ==
    LET args == ValuesToArgs(s, values)
        given == IF reversed THEN Reverse(args.lengths) ELSE args.lengths
    IN /\ NewReaderOutcome(args.hashes, given) = "reader"
       /\ salt = s
       /\ hashes = args.hashes
       /\ lengths = NewReaderLengths(given)
       /\ maxLength = NewReaderLengths(given)[1]
       /\ mask = m

\* the source never fails
NoSourceError ==
    /\ srcErrAt = -1
    /\ errOutLen = -1
    /\ errSrcPos = -1

\* the index and the Reader were handed over ready-made
CallerOff ==
    /\ cPc = "off"
    /\ cValues = <<>>
    /\ cArgs = <<>>
    /\ cRet = <<>>

\* no scan machine is running
ScanOff ==
    /\ sPc = "off"
    /\ sData = <<>>
    /\ sI = 0
    /\ sLastPos = 0
    /\ sResult = <<>>
    /\ sSpans = <<>>
    /\ sExamined = <<>>

\* no Reader was built
ReaderOff ==
    /\ numWorkers = 0
    /\ source = <<>>
    /\ srcShort = FALSE
    /\ srcPos = 0
    /\ buffer = <<>>
    /\ pending = <<>>
    /\ nextChunk = 0
    /\ workChNil = TRUE
    /\ workQ = <<>>
    /\ workClosed = 0
    /\ resultChNil = TRUE
    /\ resultQ = <<>>
    /\ resultClosed = 0
    /\ closed = FALSE
    /\ muHeld = FALSE
    /\ stopClosed = <<>>
    /\ srcCloseCount = 0
    /\ wpc = <<>>
    /\ wChunk = <<>>
    /\ rpc = "off"
    /\ rP = 0
    /\ rChunk = noChunk
    /\ rAfter = "none"
    /\ cpc = <<>>
    /\ tearPc = "none"
    /\ tearIdx = 0
    /\ tearBy = -1
    /\ output = <<>>
    /\ eof = FALSE
    /\ readErr = FALSE
    /\ panicked = FALSE
    /\ writeLog = <<>>
    /\ dispatched = <<>>

InitScan ==
    /\ \E values \in ScanValueLists, s \in ScanSalts, m \in ScanMasks, reversed \in BOOLEAN :
           InitIndex(values, s, m, reversed)
    /\ sData \in SeqUpTo(ScanBytes, MaxData)
    /\ sPc = "loop"
    /\ sI = 0
    /\ sLastPos = 0
    /\ sResult = <<>>
    /\ sSpans = <<>>
    /\ sExamined = <<>>
    /\ ReaderOff
    /\ NoSourceError
    /\ CallerOff

NextScan == ScanMatch \/ ScanAdvance \/ ScanFinish

SpecScan == InitScan /\ [][NextScan]_vars

\* Candidate lists, masks and source bytes of the Reader runs: a secret that
\* ends in a zero byte, a secret and one it contains; a mask shorter and a
\* mask longer than the secrets.
ReaderValueLists ==
    { <<<<97, NUL>>>>,
      <<<<97, 97>>>>,
      <<<<97>>, <<97, 97, NUL>>>> }
ReaderBytes == {NUL, 97}
ReaderMasks == {<<42>>, <<42, 42, 42>>}
ReaderSalts == {<<7>>}

\* the state NewReader returns (lines 99-126): empty buffer and pending map,
\* both channels open and empty, every worker started
InitReader(src, short, nw, nc) ==
    /\ numWorkers = nw
    /\ source = src
    /\ srcShort = short
    /\ srcPos = 0
    /\ buffer = <<>>
    /\ pending = <<>>
    /\ nextChunk = 0
    /\ workChNil = FALSE
    /\ workQ = <<>>
    /\ workClosed = 0
    /\ resultChNil = FALSE
    /\ resultQ = <<>>
    /\ resultClosed = 0
    /\ closed = FALSE
    /\ muHeld = FALSE
    /\ stopClosed = [w \in 1..nw |-> 0]
    /\ srcCloseCount = 0
    /\ wpc = [w \in 1..nw |-> "select"]
    /\ wChunk = [w \in 1..nw |-> noChunk]
    /\ rpc = "idle"
    /\ rP = 0
    /\ rChunk = noChunk
    /\ rAfter = "none"
    /\ cpc = [c \in 1..nc |-> "idle"]
    /\ tearPc = "none"
    /\ tearIdx = 0
    /\ tearBy = -1
    /\ output = <<>>
    /\ eof = FALSE
    /\ readErr = FALSE
    /\ panicked = FALSE
    /\ writeLog = <<>>
    /\ dispatched = <<>>

ReaderNext ==
    \/ \E k \in 1..MaxP : ReadCall(k)
    \/ ReadCopy
    \/ ReadReturnEOF
    \/ ProcessNextChunkRead
    \/ ProcessNextChunkId
    \/ ProcessNextChunkSend
    \/ ProcessResultsCheck
    \/ ProcessResultsRecvStart
    \/ ProcessResultsRecv
    \/ ProcessResultsInsert
    \/ ProcessResultsLookup
    \/ ProcessResultsWrite
    \/ ReaderClose

TearNext ==
    \/ TearStop
    \/ TearWait
    \/ TearCloseWork
    \/ TearNilWork
    \/ TearCloseResult
    \/ TearNilResult
    \/ TearReset
    \/ TearCloseSource

WorkerNext ==
    \/ \E w \in Workers : WorkerStop(w)
    \/ \E w \in Workers : WorkerTake(w)
    \/ \E w \in Workers : WorkerSend(w)

\* One caller reads to the first io.EOF (or error); nobody else calls Close.
InitRead ==
    /\ \E values \in ReaderValueLists, s \in ReaderSalts, m \in ReaderMasks :
           InitIndex(values, s, m, FALSE)
    /\ ScanOff
    /\ \E src \in SeqUpTo(ReaderBytes, MaxInput), short \in BOOLEAN, nw \in 1..MaxWorkers :
           InitReader(src, short, nw, 0)
    /\ NoSourceError
    /\ CallerOff

NextRead == ReaderNext \/ TearNext \/ WorkerNext

SpecRead == InitRead /\ [][NextRead]_vars

\* The same, with goroutines that call Close at any moment. What the bytes
\* are plays no part in the races, so one secret, one mask and one source per
\* length are drawn.
CloseValueLists == { <<<<97, 97>>>> }
CloseBytes == {97}
CloseMasks == {<<42>>}

Init ==
    /\ \E values \in CloseValueLists, s \in ReaderSalts, m \in CloseMasks :
           InitIndex(values, s, m, FALSE)
    /\ ScanOff
    /\ \E src \in SeqUpTo(CloseBytes, MaxInputClose), nw \in 1..MaxWorkers :
           InitReader(src, FALSE, nw, NumClosers)
    /\ NoSourceError
    /\ CallerOff

Next == ReaderNext \/ TearNext \/ WorkerNext \/ \E c \in Closers : CloseCall(c)

Spec == Init /\ [][Next]_vars

\* One caller reads a source that returns an error (not io.EOF) after
\* srcErrAt bytes, and may go on calling Read after the error.
InitErr ==
    /\ \E values \in CloseValueLists, s \in ReaderSalts, m \in CloseMasks :
           InitIndex(values, s, m, FALSE)
    /\ ScanOff
    /\ \E src \in SeqUpTo(CloseBytes, MaxInputErr), nw \in 1..MaxWorkers :
           InitReader(src, FALSE, nw, 0)
    /\ srcErrAt \in -1..Len(source)
    /\ errOutLen = -1
    /\ errSrcPos = -1
    /\ CallerOff

SpecErr == InitErr /\ [][NextRead]_vars

-----------------------------------------------------------------------------
(* Building the index and the Reader: ValuesToArgs, NewReader *)

\* runtime.NumCPU(), the number of workers when opts.NumWorkers <= 0
NumCPU == 2

\* Values a caller hands to ValuesToArgs: none, one, a repeated one, one given
\* twice with and without newlines around it, two of one length, a short one
\* next to a long one, an empty one.
NewValueLists ==
    { <<>>,
      <<<<97, 98>>>>,
      <<<<97, 98>>, <<97, 98>>>>,
      <<<<LF, 97, 98, LF>>, <<97, 98>>>>,
      <<<<97, 98>>, <<98, 97>>>>,
      <<<<97>>, <<97, LF, 98>>>>,
      <<<<LF>>, <<97, 98, 97>>>>,
      <<<<>>>> }
NewBytes == {97, 98}
NewMasks == {<<42>>}
\* digests and lengths a caller passes without ValuesToArgs
CallerHashes == { <<>>, <<Hash(<<7>>, <<97, 98>>)>> }
CallerLengths == { <<>>, <<0>>, <<0, 0>>, <<0, 2>>, <<2, 0>>, <<1, 2>>, <<-1, 0>> }

\* the caller has the values and the arguments of NewReader other than the
\* digests and lengths; no Reader exists
InitCaller(values, rd, s, m, nw) ==
    /\ cPc = "start"
    /\ cValues = values
    /\ cArgs = [rd |-> rd, salt |-> s, hashes |-> <<>>, lengths |-> <<>>,
                mask |-> m, numWorkers |-> nw, from |-> "none"]
    /\ cRet = [reader |-> "none", err |-> "none"]
    /\ salt = <<>>
    /\ hashes = <<>>
    /\ lengths = <<>>
    /\ maxLength = 0
    /\ mask = <<>>

\* hashes, lengths := ValuesToArgs(opts.Hash, salt, values)
ValuesToArgsCall ==
    /\ cPc = "start"
    /\ LET args == ValuesToArgs(cArgs.salt, cValues)
       IN cArgs' = [cArgs EXCEPT !.hashes = args.hashes, !.lengths = args.lengths,
                                 !.from = "ValuesToArgs"]
    /\ cPc' = "args"
    /\ UNCHANGED <<cValues, cRet, idxVars, scanVars, readerVars, errVars>>

\* the caller passes digests and lengths it got elsewhere, the lengths in any order
CallerArgs ==
    /\ cPc = "start"
    /\ \E hs \in CallerHashes, ls \in CallerLengths :
           cArgs' = [cArgs EXCEPT !.hashes = hs, !.lengths = ls, !.from = "caller"]
    /\ cPc' = "args"
    /\ UNCHANGED <<cValues, cRet, idxVars, scanVars, readerVars, errVars>>

\* NewReader, lines 85-127
NewReaderCall ==
    /\ cPc = "args"
    /\ cPc' = "returned"
    /\ LET outcome == NewReaderOutcome(cArgs.hashes, cArgs.lengths)
           nw == IF cArgs.numWorkers <= 0 THEN NumCPU ELSE cArgs.numWorkers
       IN IF outcome = "passthrough"
          THEN /\ cRet' = [reader |-> "rd", err |-> "nil"]
               /\ UNCHANGED <<idxVars, readerVars>>
          ELSE IF outcome = "error"
          THEN /\ cRet' = [reader |-> "nil", err |-> "ErrorInvalidLengths"]
               /\ UNCHANGED <<idxVars, readerVars>>
          ELSE /\ cRet' = [reader |-> "Reader", err |-> "nil"]
               /\ salt' = cArgs.salt
               /\ hashes' = cArgs.hashes
               /\ lengths' = NewReaderLengths(cArgs.lengths)
               /\ maxLength' = NewReaderLengths(cArgs.lengths)[1]
               /\ mask' = cArgs.mask
               /\ source' = cArgs.rd
               /\ numWorkers' = nw
               /\ workChNil' = FALSE
               /\ resultChNil' = FALSE
               /\ stopClosed' = [w \in 1..nw |-> 0]
               /\ wpc' = [w \in 1..nw |-> "select"]
               /\ wChunk' = [w \in 1..nw |-> noChunk]
               /\ rpc' = "idle"
               /\ UNCHANGED <<srcShort, srcPos, buffer, pending, nextChunk, workQ, workClosed,
                              resultQ, resultClosed, closed, muHeld, srcCloseCount, rP, rChunk,
                              rAfter, cpc, tearVars, obsVars>>
    /\ UNCHANGED <<cValues, cArgs, scanVars, errVars>>

\* NewReader returned rd itself (line 87): the caller's Read is rd's Read
SourceRead(k) ==
    /\ cPc = "returned"
    /\ cRet.reader = "rd"
    /\ ~eof
    /\ LET n == Min(k, Len(cArgs.rd) - srcPos)
       IN IF n = 0
          THEN /\ eof' = TRUE
               /\ UNCHANGED <<srcPos, output>>
          ELSE /\ output' = output \o Slice(cArgs.rd, srcPos, srcPos + n)
               /\ srcPos' = srcPos + n
               /\ UNCHANGED eof
    /\ UNCHANGED <<ctorVars, errVars, idxVars, scanVars, cfgVars, buffer, pending, nextChunk,
                   chanVars, closed, muHeld, stopClosed, srcCloseCount, wpc, wChunk, rpc, rP,
                   rChunk, rAfter, cpc, tearVars, readErr, panicked, writeLog, dispatched>>

InitNew ==
    /\ \E values \in NewValueLists, rd \in SeqUpTo(NewBytes, MaxInputNew),
          s \in ReaderSalts, m \in NewMasks, nw \in 0..MaxWorkers :
           InitCaller(values, rd, s, m, nw)
    /\ ScanOff
    /\ ReaderOff
    /\ NoSourceError

NextNew ==
    \/ ValuesToArgsCall
    \/ CallerArgs
    \/ NewReaderCall
    \/ \E k \in 1..MaxP : SourceRead(k)

SpecNew == InitNew /\ [][NextNew]_vars

\* A worker of the new Reader scans an input shorter than a chunk: the one,
\* final chunk is the whole input (worker.run lines 139-140)
ScanStart ==
    /\ cPc = "returned"
    /\ cRet.reader = "Reader"
    /\ sPc = "off"
    /\ sData' = source
    /\ sPc' = "loop"
    /\ UNCHANGED <<sI, sLastPos, sResult, sSpans, sExamined, idxVars, readerVars, errVars,
                   ctorVars>>

\* Values given with newlines before, after and inside them, one of them in
\* two forms; inputs that hold newlines.
CanonValueLists ==
    { <<<<LF, 97, 98>>>>,
      <<<<97, 98, LF>>>>,
      <<<<LF, 97, LF>>>>,
      <<<<97, LF, 98>>>>,
      <<<<LF, 97, 98>>, <<97, 98, LF, LF>>>> }
CanonBytes == {97, 98, LF}
CanonMasks == {<<42, 42>>}

InitCanon ==
    /\ \E values \in CanonValueLists, rd \in SeqUpTo(CanonBytes, MaxData),
          s \in ReaderSalts, m \in CanonMasks :
           InitCaller(values, rd, s, m, 1)
    /\ ScanOff
    /\ ReaderOff
    /\ NoSourceError

NextCanon ==
    \/ ValuesToArgsCall
    \/ NewReaderCall
    \/ ScanStart
    \/ ScanMatch
    \/ ScanAdvance
    \/ ScanFinish

SpecCanon == InitCanon /\ [][NextCanon]_vars

\* The Go scheduler runs every goroutine that can take a step: a Read or a
\* Close in progress and every worker keep going (weak fairness). The caller
\* is free never to call Read again, and nobody has to call Close.
ReadInFlight ==
    \/ ReadCopy
    \/ ReadReturnEOF
    \/ ProcessNextChunkRead
    \/ ProcessNextChunkId
    \/ ProcessNextChunkSend
    \/ ProcessResultsCheck
    \/ ProcessResultsRecvStart
    \/ ProcessResultsRecv
    \/ ProcessResultsInsert
    \/ ProcessResultsLookup
    \/ ProcessResultsWrite
    \/ ReaderClose

WorkerRuns(w) ==
    /\ w \in Workers
    /\ WorkerStop(w) \/ WorkerTake(w) \/ WorkerSend(w)

Scheduling ==
    /\ WF_vars(ReadInFlight)
    /\ WF_vars(TearNext)
    /\ \A w \in 1..MaxWorkers : WF_vars(WorkerRuns(w))

FairSpec == Init /\ [][Next]_vars /\ Scheduling

-----------------------------------------------------------------------------
(* Claims about the scan (specification SpecScan) *)

\* the buffer with every span of spans (ascending, disjoint) replaced by the mask
RECURSIVE Rebuild(_, _, _)
Rebuild(data, from, spans) ==
    IF spans = <<>> THEN Slice(data, from, Len(data))
    ELSE Slice(data, from, spans[1][1]) \o mask
            \o Rebuild(data, spans[1][1] + spans[1][2], Tail(spans))

\* the position examined after the k-th examined one (the loop variable when
\* the k-th is the latest)
NextExamined(k) == IF k < Len(sExamined) THEN sExamined[k + 1] ELSE sI

\* C7: the result of processData is the buffer with pairwise non-overlapping
\* spans replaced by the mask and every other byte kept in place; every
\* replaced span is a window that fits the buffer and whose digest is in the
\* digest set; after a match of length L at i the next position examined is
\* i+L, and no position inside a replaced span is examined.
C7_ScanReplacesDisjointSpans ==
    /\ \A k \in 1..Len(sSpans) :
          /\ sSpans[k][1] + sSpans[k][2] <= Len(sData)
          /\ hashMatch(Hash(salt, Slice(sData, sSpans[k][1], sSpans[k][1] + sSpans[k][2])))
          /\ k < Len(sSpans) => sSpans[k][1] + sSpans[k][2] <= sSpans[k + 1][1]
          /\ \E e \in 1..Len(sExamined) :
                /\ sExamined[e] = sSpans[k][1]
                /\ NextExamined(e) = sSpans[k][1] + sSpans[k][2]
          /\ \A e \in 1..Len(sExamined) :
                ~(sSpans[k][1] < sExamined[e] /\ sExamined[e] < sSpans[k][1] + sSpans[k][2])
    /\ sPc = "loop" => ScanTail(sData, sLastPos, sResult) = Rebuild(sData, 0, sSpans)
    /\ sPc = "done" => sResult = Rebuild(sData, 0, sSpans)

\* a finished scan that replaced two spans, the first of two bytes or more,
\* and kept the bytes before them
C7_Witness ==
    /\ sPc = "done"
    /\ Len(sSpans) >= 2
    /\ sSpans[1][2] >= 2
    /\ sSpans[1][1] > 0

\* C8: at every position where a span was replaced, the replaced span is the
\* longest candidate length whose window fits the buffer and has its digest
\* in the digest set.
C8_GreedyLongestMatch ==
    \A k \in 1..Len(sSpans) :
        \A c \in 1..Len(lengths) :
            ( /\ sSpans[k][1] + lengths[c] <= Len(sData)
              /\ hashMatch(Hash(salt, Slice(sData, sSpans[k][1], sSpans[k][1] + lengths[c]))) )
            => lengths[c] <= sSpans[k][2]

\* a replaced span at a position where a shorter candidate window matched too
C8_Witness ==
    \E k \in 1..Len(sSpans) :
        \E c \in 1..Len(lengths) :
            /\ lengths[c] > 0
            /\ lengths[c] < sSpans[k][2]
            /\ hashMatch(Hash(salt, Slice(sData, sSpans[k][1], sSpans[k][1] + lengths[c])))

\* the candidate behind the k-th digest of the index (Hash is one-to-one)
IndexedSecret(k) == SubSeq(hashes[k][2], Len(salt) + 1, Len(hashes[k][2]))

\* the window of length 0 matches at every position: 0 is a candidate length
\* and the digest of the empty string is in the digest set
ZeroWindowMatches == 0 \in Range(lengths) /\ hashMatch(Hash(salt, <<>>))

\* C15, as stated: when the mask is not a registered secret, the scan of a
\* scan's result returns that result unchanged (where the scan ends at all).
C15_IdempotentWhenMaskNotSecret ==
    ( /\ sPc = "done"
      /\ ~ZeroWindowMatches
      /\ ~hashMatch(Hash(salt, mask)) )
    => processData(sResult) = sResult

\* C15, amended: when the mask is not empty and no registered secret holds a
\* byte of the mask, the scan of a scan's result returns that result unchanged.
C15_IdempotentDisjointMask ==
    ( /\ sPc = "done"
      /\ ~ZeroWindowMatches
      /\ mask # <<>>
      /\ \A k \in 1..Len(hashes) : Range(IndexedSecret(k)) \cap Range(mask) = {} )
    => processData(sResult) = sResult

\* a finished scan, under those conditions, whose result holds a mask and,
\* after it, bytes of the input, among them a byte of the mask
C15_Witness ==
    /\ sPc = "done"
    /\ ~ZeroWindowMatches
    /\ mask # <<>>
    /\ \A k \in 1..Len(hashes) : Range(IndexedSecret(k)) \cap Range(mask) = {}
    /\ Len(sSpans) = 1
    /\ sLastPos < Len(sData)
    /\ \E k \in (sLastPos + 1)..Len(sData) : sData[k] \in Range(mask)

\* C16: every iteration of the scan loop moves the position forward, by one
\* byte or by the length of the match it consumed, which is one byte or more.
C16_ScanMovesForward == [][sExamined' # sExamined => sI' >= sI + 1]_vars

-----------------------------------------------------------------------------
(* Claims about one caller reading to the first io.EOF (specification SpecRead) *)

\* C1: when Read has returned io.EOF, the bytes it delivered are the result of
\* one scan (processData) of the whole source.
C1_ModeEquivalence == eof => output = processData(source)

\* C2: when Read has returned io.EOF, the bytes it delivered contain no indexed
\* secret of at least the minimum length as a contiguous substring (for a
\* non-empty mask and a secret that holds no byte of the mask, the cases the
\* fuzz test keeps).
C2_NoLeakage ==
    eof => \A k \in 1..Len(hashes) :
              ( /\ Len(IndexedSecret(k)) >= MinSecretLen
                /\ mask # <<>>
                /\ Range(IndexedSecret(k)) \cap Range(mask) = {} )
              => ~Contains(output, IndexedSecret(k))

\* the source holds exactly one match, at i with length L, that begins in the
\* data of the first chunk and ends after it
StraddlesFirstChunk(i, L) ==
    /\ Len(dispatched) >= 1
    /\ ScanFrom(source, 0, 0, <<>>, <<>>).spans = <<<<i, L>>>>
    /\ i < Len(dispatched[1].data)
    /\ i + L > Len(dispatched[1].data)

\* C3: a secret that begins in the data of a chunk and ends in the data that
\* follows it is replaced in the output by one complete mask, and the bytes
\* before and after it are delivered unchanged.
C3_BoundaryCorrectness ==
    eof => \A i \in 0..Len(source), L \in 1..Len(source) :
              StraddlesFirstChunk(i, L)
              => output = Slice(source, 0, i) \o mask \o Slice(source, i + L, Len(source))

\* C4: Read returns io.EOF only when every byte written to r.buffer has been
\* delivered.
C4_EOFAfterDrain == eof => buffer = <<>>

\* C5: when Read first returns io.EOF, every chunk that was given an id has
\* been written to r.buffer and no chunk is held in r.pending.
C5_AllChunksReleased ==
    eof => /\ \A k \in 1..Len(dispatched) : dispatched[k].id \in Range(writeLog)
           /\ DOMAIN pending = {}

\* C6: the chunks are written to r.buffer in ascending id order from 0, each
\* at most once: the k-th write is of chunk k-1.
C6_AscendingWrites == \A k \in 1..Len(writeLog) : writeLog[k] = k - 1

\* chunk 0 was written while chunk 1, completed by a worker, waits in r.pending
C6_Witness ==
    /\ writeLog = <<0>>
    /\ 1 \in DOMAIN pending
    /\ numWorkers >= 2

\* the number of source bytes consumed up to the end of the k-th dispatched
\* chunk's data: the data and overlap of the chunks before it, and its data
RECURSIVE DataEnd(_)
DataEnd(k) ==
    IF k = 1 THEN Len(dispatched[1].data)
    ELSE DataEnd(k - 1) + Len(dispatched[k - 1].overlap) + Len(dispatched[k].data)

\* C20: every chunk that is not the last carries at least maxLength-1 overlap
\* bytes, or all the bytes the source has after the chunk's data when those
\* are fewer, also when the source's reads return fewer bytes than asked for.
C20_LookaheadInvariant ==
    \A k \in 1..Len(dispatched) :
        ~dispatched[k].isLast =>
            Len(dispatched[k].overlap) >= Min(maxLength - 1, Len(source) - DataEnd(k))

\* the number of bytes in the data slices of the first k dispatched chunks
RECURSIVE DataSum(_)
DataSum(k) == IF k = 0 THEN 0 ELSE DataSum(k - 1) + Len(dispatched[k].data)

\* C21: the data slices of the chunks, one after the other, are the input:
\* the k-th is the source from the end of the one before it, the overlap of a
\* chunk is the head of the next chunk's data, and by io.EOF every source
\* byte is in a data slice.
C21_DataPartitionsInput ==
    /\ \A k \in 1..Len(dispatched) :
          /\ dispatched[k].data = Slice(source, DataSum(k - 1), DataSum(k))
          /\ k < Len(dispatched) =>
                LET n == Min(Len(dispatched[k].overlap), Len(dispatched[k + 1].data))
                IN Slice(dispatched[k].overlap, 0, n) = Slice(dispatched[k + 1].data, 0, n)
    /\ eof => DataSum(Len(dispatched)) = Len(source)

\* a is the first bytes of b
IsPrefix(a, b) == Len(a) <= Len(b) /\ a = SubSeq(b, 1, Len(a))

\* C22: what a worker deposits for a chunk that is not the last is a prefix
\* of the scan of its data and overlap, and the cut index len(chunk.data),
\* where the cut is made, is no more than the length of that scan.
C22_CutWithinScanResult ==
    \A w \in Workers :
        (wpc[w] = "send" /\ ~wChunk[w].isLast) =>
            LET scan == processData(wChunk[w].data \o wChunk[w].overlap)
            IN /\ IsPrefix(wChunk[w].result, scan)
               /\ Len(scan) > 0 => Len(wChunk[w].data) <= Len(scan)

\* the chunks in the work channel, held by a worker, or in the result channel
InFlight ==
    Len(workQ) + Cardinality({w \in Workers : wpc[w] = "send"}) + Len(resultQ)

\* C23: with one caller of Read and no Close from outside, at most one chunk
\* is in flight; when processNextChunk sends, none is and the work channel is
\* open and not full, and Read never returns "work channel full".
C23_OneChunkInFlight ==
    /\ InFlight <= 1
    /\ ~readErr
    /\ rpc = "send" =>
          /\ InFlight = 0
          /\ ~workChNil
          /\ workClosed = 0
          /\ Len(workQ) < numWorkers

\* with one worker, a chunk after the first is in the work channel while the
\* caller waits for its result
C23_Witness ==
    /\ numWorkers = 1
    /\ rpc = "recvWait"
    /\ Len(workQ) = 1
    /\ workQ[1].id >= 1

-----------------------------------------------------------------------------
(* Claims about Close called concurrently (specification Spec) *)

\* C9: whatever the number of Close calls (those of other goroutines and the
\* one Read issues at the end of the input), every stop channel, the work
\* channel and the result channel are closed at most once and the source's
\* Close is called at most once; when the teardown has finished each of them
\* happened exactly once.
C9_CloseIdempotent ==
    /\ \A w \in Workers : stopClosed[w] <= 1
    /\ workClosed <= 1
    /\ resultClosed <= 1
    /\ srcCloseCount <= 1
    /\ tearPc = "finished" =>
          /\ \A w \in Workers : stopClosed[w] = 1
          /\ workClosed = 1
          /\ resultClosed = 1
          /\ srcCloseCount = 1

\* every concurrent caller's Close has returned, Read has called Close itself
\* and returned io.EOF, and the teardown has finished
C9_Witness ==
    /\ tearPc = "finished"
    /\ Closers # {}
    /\ \A c \in Closers : cpc[c] = "done"
    /\ rAfter = "retEOF"
    /\ eof

\* C10: no goroutine sends on a channel that Close has closed.
C10_NoSendOnClosedChannel == ~panicked

\* a worker goroutine has not returned from run
WorkerRunning(w) == wpc[w] # "exited"

\* C19: in the Close that tears down, the work and result channels are closed
\* only when every stop channel is closed and every worker has returned, the
\* pending map is cleared after both channels are closed and before the
\* source's Close is called, which comes last; the source is never closed
\* while a worker is running.
C19_TeardownOrder ==
    /\ [](\A w \in Workers :
            (stopClosed[w] = 0 \/ WorkerRunning(w)) =>
                /\ workClosed = 0
                /\ resultClosed = 0
                /\ srcCloseCount = 0)
    /\ []((workClosed = 0 \/ resultClosed = 0 \/ ~workChNil \/ ~resultChNil)
            => srcCloseCount = 0)
    /\ [][srcCloseCount' # srcCloseCount =>
            /\ tearPc = "closeSource"
            /\ tearPc' = "finished"
            /\ ~muHeld]_vars
    /\ [][tearPc = "reset" /\ tearPc' = "closeSource" =>
            /\ workClosed = 1 /\ resultClosed = 1
            /\ pending' = <<>> /\ nextChunk' = 0
            /\ srcCloseCount' = 0]_vars

\* the teardown was run by a concurrent caller of Close, with two workers, one
\* of which held a chunk when it was stopped, and the source is closed
C19_Witness ==
    /\ tearPc = "finished"
    /\ tearBy > 0
    /\ numWorkers = 2
    /\ srcCloseCount = 1
    /\ dispatched # <<>>
    /\ writeLog = <<>>

\* C25: when a call of Close by another goroutine has returned, the teardown
\* is complete: every worker has returned and the source's Close was called.
C25_CloseReturnsAfterTeardown ==
    \A c \in Closers :
        cpc[c] = "done" =>
            /\ \A w \in Workers : ~WorkerRunning(w)
            /\ srcCloseCount = 1
            /\ tearPc = "finished"

\* C26: no step of Read, Close or a worker changes the salt, the digest set,
\* the length list, maxLength (or the mask).
C26_IndexImmutable == [][idxVars' = idxVars]_vars

\* the Reader has delivered bytes of a masked input, was torn down by a
\* concurrent Close, and its index is the one it was built with
C26_Witness ==
    /\ tearPc = "finished"
    /\ tearBy > 0
    /\ output # <<>>
    /\ \A w \in Workers : wpc[w] = "exited"
    /\ lengths = <<2>>
    /\ maxLength = 2
    /\ Len(hashes) = 1

-----------------------------------------------------------------------------
(* Claims about ValuesToArgs and NewReader (specification SpecNew) *)

\* C12: when NewReader is given no digests it returns the source rd itself
\* and a nil error, starts no worker and makes no channel, buffer or map; what
\* the caller then reads are the source's bytes, in order, all of them by the
\* end of the input.
C12_PassThrough ==
    (cPc = "returned" /\ cArgs.hashes = <<>>) =>
        /\ cRet = [reader |-> "rd", err |-> "nil"]
        /\ numWorkers = 0
        /\ wpc = <<>>
        /\ stopClosed = <<>>
        /\ workChNil /\ resultChNil
        /\ buffer = <<>> /\ pending = <<>>
        /\ rpc = "off"
        /\ output = Slice(cArgs.rd, 0, srcPos)
        /\ eof => output = cArgs.rd

\* no digests but lengths were passed; the caller has read the source of two
\* bytes or more to its end
C12_Witness ==
    /\ cPc = "returned"
    /\ cArgs.hashes = <<>>
    /\ cArgs.lengths # <<>>
    /\ eof
    /\ Len(cArgs.rd) >= 2
    /\ output = cArgs.rd

\* the largest element of a non-empty list is 0
LargestIsZero(ls) ==
    /\ \E k \in 1..Len(ls) : ls[k] = 0
    /\ \A k \in 1..Len(ls) : ls[k] <= 0

\* C13: given digests, NewReader returns a nil reader and an error wrapping
\* ErrorInvalidLengths exactly when the length list is empty or its largest
\* element is 0, and then starts no worker and makes no channel; in every
\* other case it returns a Reader and a nil error, with its workers started.
C13_InvalidLengthsError ==
    (cPc = "returned" /\ cArgs.hashes # <<>>) =>
        LET bad == cArgs.lengths = <<>> \/ LargestIsZero(cArgs.lengths)
        IN /\ bad <=> cRet = [reader |-> "nil", err |-> "ErrorInvalidLengths"]
           /\ bad => /\ numWorkers = 0
                     /\ wpc = <<>>
                     /\ workChNil /\ resultChNil
                     /\ rpc = "off"
           /\ ~bad => /\ cRet = [reader |-> "Reader", err |-> "nil"]
                      /\ numWorkers >= 1
                      /\ \A w \in Workers : wpc[w] = "select"
                      /\ ~workChNil /\ ~resultChNil
                      /\ rpc = "idle"

\* NewReader refused digests that came with two lengths, the largest of them 0
C13_Witness ==
    /\ cPc = "returned"
    /\ cArgs.hashes # <<>>
    /\ Len(cArgs.lengths) = 2
    /\ LargestIsZero(cArgs.lengths)
    /\ cRet.err = "ErrorInvalidLengths"

\* C17: a value whose canonical form is shorter than the minimum length is
\* left out of what ValuesToArgs returns: neither its digest nor its length
\* is there.
C17_ShortCandidatesExcluded ==
    (cPc \in {"args", "returned"} /\ cArgs.from = "ValuesToArgs") =>
        \A k \in 1..Len(cValues) :
            Len(Trim(cValues[k])) < MinSecretLen =>
                /\ Hash(cArgs.salt, Trim(cValues[k])) \notin Range(cArgs.hashes)
                /\ Len(Trim(cValues[k])) \notin Range(cArgs.lengths)

\* t is v without the LF bytes at its two ends
IsTrimOf(t, v) ==
    /\ t = <<>> \/ (t[1] # LF /\ t[Len(t)] # LF)
    /\ \E a \in 0..Len(v) : \E b \in a..Len(v) :
          /\ t = Slice(v, a, b)
          /\ \A k \in 1..a : v[k] = LF
          /\ \A k \in (b + 1)..Len(v) : v[k] = LF

\* C18: ValuesToArgs returns digests that are pairwise different and are
\* exactly the digests of the values with the LF bytes at their ends removed,
\* and lengths that are exactly the lengths of those, strictly descending.
C18_ValuesToArgsIndex ==
    (cPc \in {"args", "returned"} /\ cArgs.from = "ValuesToArgs") =>
        LET canon == {Trim(cValues[k]) : k \in 1..Len(cValues)}
            hs == cArgs.hashes
            ls == cArgs.lengths
        IN /\ \A k \in 1..Len(cValues) : IsTrimOf(Trim(cValues[k]), cValues[k])
           /\ Range(hs) = {Hash(cArgs.salt, c) : c \in canon}
           /\ \A i, j \in 1..Len(hs) : i # j => hs[i] # hs[j]
           /\ Range(ls) = {Len(c) : c \in canon}
           /\ \A i \in 1..(Len(ls) - 1) : ls[i] > ls[i + 1]

\* two different values with one canonical form gave one digest and one length
C18_Witness ==
    /\ cPc = "args"
    /\ cArgs.from = "ValuesToArgs"
    /\ Len(cValues) = 2
    /\ cValues[1] # cValues[2]
    /\ Len(cArgs.hashes) = 1
    /\ Len(cArgs.lengths) = 1

-----------------------------------------------------------------------------
(* Claims about values given with newlines (specification SpecCanon) *)

\* the number of places at which t occurs in data
Occurrences(t, data) ==
    Cardinality({i \in 0..(Len(data) - Len(t)) : Slice(data, i, i + Len(t)) = t})

-----------------------------------------------------------------------------
(* Claims about a source whose Read fails (specification SpecErr) *)

\* C14: once Read has returned the source's error, no later Read call delivers
\* a byte and the source is not read again.
C14_NoOutputAfterSourceError ==
    errOutLen >= 0 => (Len(output) = errOutLen /\ srcPos = errSrcPos)

-----------------------------------------------------------------------------
(* Claims about progress under concurrent Close (specification FairSpec) *)

\* a Read call has been entered and has not returned
ReadRunning == rpc \notin {"idle", "done", "off"}

\* C11: with Close called concurrently, every Read call in progress returns
\* and every Close call that tears down returns (a panic, which ends the
\* program, aside): Read never stays blocked receiving from the result channel.
C11_ReadAndCloseReturn ==
    /\ ReadRunning ~> (~ReadRunning \/ panicked)
    /\ \A c \in 1..NumClosers : (cpc[c] = "tearing") ~> (cpc[c] = "done")

=============================================================================
